---------------------------- MODULE Spec2Model ----------------------------
(***************************************************************************)
(* The HTML element extractor of src/b30/scraper.rs: find_elements_by_class *)
(* (an outer scan over opening tags with an inner depth scan for the       *)
(* matching closing tag), find_first_anchor and Element::get_attr; and its *)
(* callers in src/b30/lib.rs, get_beer_rating and fetch_untappd_ratings.   *)
(*                                                                         *)
(* A string is a sequence of one-character strings.  Positions are the     *)
(* zero-based offsets of the Rust code: Slice(s, a, b) is &s[a..b].        *)
(***************************************************************************)
EXTENDS Integers, Sequences, FiniteSets, TLC

VARIABLES
    chunks,       \* the tokens the input text was written from
    html,         \* the text handed to the extractor
    class_name,   \* the class token searched for
    pc,           \* "class" | "scan" | "depth" | "done" | "anchor" |
                  \* "anchor_done" | "got": the call made and where it stands;
                  \* "rating" in get_beer_rating's own code; "fetch" |
                  \* "returned" for fetch_untappd_ratings
    search_pos,   \* find_elements_by_class: cursor of the outer scan
    elements,     \* find_elements_by_class: the result vector
    spans,        \* for each pushed element, the offsets it was cut at
    cand,         \* the candidate being resolved: tag_match/captures of line 36-43
    depth,        \* depth counter of the inner scan
    pos,          \* cursor of the inner scan
    tag_end,      \* where the opening tag of the candidate ends
    content_end,  \* where the content of the candidate ends
    anchor,       \* result of find_first_anchor: <<>> (None) or <<element>>
    got,          \* last get_attr call: its element, name and result
    stage,        \* get_beer_rating: "none" | "start" | "items" | "anchor" |
                  \* "href" | "caps" | "rating" | "rated"
    fetched,      \* get_beer_rating: "ok" or the request step that fails
    beer_items,   \* get_beer_rating: the vector of the first extractor call
    relative_url, \* get_beer_rating: the href read, <<>> before
    caps_divs,    \* get_beer_rating: the vector of the second extractor call
    rating_and_url, \* get_beer_rating: the string returned, <<>> before
    entries,      \* fetch_untappd_ratings: the beer entries
    kv,           \* the key/value cache: key -> <<>> or <<[value, ttl]>>
    task,         \* fetch_untappd_ratings: the per-entry futures
    results,      \* fetch_untappd_ratings: (idx, rating) as collected
    ratings       \* fetch_untappd_ratings: the vector returned

\* the locals of the caller of the extractor
caller_vars == <<stage, fetched, beer_items, relative_url, caps_divs,
                 rating_and_url>>

\* the state of fetch_untappd_ratings
fetch_vars == <<entries, kv, task, results, ratings>>

vars == <<chunks, html, class_name, pc, search_pos, elements, spans, cand,
          depth, pos, tag_end, content_end, anchor, got, caller_vars,
          fetch_vars>>

-----------------------------------------------------------------------------
(* Characters and character classes of the three regular expressions.      *)

Lower == {"a","b","c","d","e","f","g","h","i","j","k","l","m",
          "n","o","p","q","r","s","t","u","v","w","x","y","z"}
Upper == {"A","B","C","D","E","F","G","H","I","J","K","L","M",
          "N","O","P","Q","R","S","T","U","V","W","X","Y","Z"}
Digit == {"0","1","2","3","4","5","6","7","8","9"}

Alpha == Lower \cup Upper                  \* [a-zA-Z]
Alnum == Alpha \cup Digit                  \* [a-zA-Z0-9]
AttrNameChar == Alnum \cup {"-"}           \* [a-zA-Z0-9-]
Space == {" ", "\t", "\n", "\r", "\f"}     \* \s, char::is_whitespace
Quote == {"'", "\""}                       \* ['"]

Min(S) == CHOOSE x \in S : \A y \in S : x <= y
Max(S) == CHOOSE x \in S : \A y \in S : x >= y

\* &s[from..to] and &s[from..]
Slice(s, from, to) == SubSeq(s, from + 1, to)
SliceFrom(s, from) == SubSeq(s, from + 1, Len(s))

\* pat occurs in s at offset i
Occurs(s, pat, i) ==
    /\ i + Len(pat) <= Len(s)
    /\ \A k \in 1..Len(pat) : s[i + k] = pat[k]

\* str::find(pat): Some(offset of the first occurrence) or None
StrFindSome(s, pat) == \E i \in 0..(Len(s) - Len(pat)) : Occurs(s, pat, i)
StrFind(s, pat) == Min({i \in 0..(Len(s) - Len(pat)) : Occurs(s, pat, i)})

\* the offset just past the longest run of characters of Class that starts at
\* offset i: what a greedy Class* consumes
SkipRun(s, i, Class) ==
    Min({k \in i..Len(s) : IF k = Len(s) THEN TRUE ELSE s[k + 1] \notin Class})

\* str::trim_start in place of str::trim
Trim_StartOnly(s) ==
    LET keep == {i \in 1..Len(s) : s[i] \notin Space}
    IN  IF keep = {} THEN <<>> ELSE SubSeq(s, Min(keep), Len(s))

\* str::trim
Trim(s) ==
    LET keep == {i \in 1..Len(s) : s[i] \notin Space}
    IN  IF keep = {} THEN <<>> ELSE SubSeq(s, Min(keep), Max(keep))

\* value.split_whitespace().any(|class| class == name)
HasToken(value, name) ==
    /\ Len(name) > 0
    /\ \A k \in 1..Len(name) : name[k] \notin Space
    /\ \E i \in 0..(Len(value) - Len(name)) :
          /\ Occurs(value, name, i)
          /\ (IF i = 0 THEN TRUE ELSE value[i] \in Space)
          /\ (IF i + Len(name) = Len(value) THEN TRUE
              ELSE value[i + Len(name) + 1] \in Space)

-----------------------------------------------------------------------------
(* The regular expressions.                                                *)

\* open_tag_re = <([a-zA-Z][a-zA-Z0-9]*)\s*([^>]*)> matches at offset i
OpenTagAt(s, i) ==
    /\ i + 2 <= Len(s)
    /\ s[i + 1] = "<"
    /\ s[i + 2] \in Alpha
    /\ \E j \in (i + 2)..(Len(s) - 1) : s[j + 1] = ">"

OpenTagFound(s) == \E i \in 0..(Len(s) - 1) : OpenTagAt(s, i)

\* the leftmost match of open_tag_re in s with its two groups
OpenTagMatch(s) ==
    LET start    == Min({i \in 0..(Len(s) - 1) : OpenTagAt(s, i)})
        name_end == SkipRun(s, start + 1, Alnum)
        attrs_at == SkipRun(s, name_end, Space)
        gt       == Min({j \in name_end..(Len(s) - 1) : s[j + 1] = ">"})
    IN  [start     |-> start,
         end       |-> gt + 1,
         tag_name  |-> Slice(s, start + 1, name_end),
         attrs_str |-> Slice(s, attrs_at, gt)]

\* the tail \s*=\s*['"]([^'"]*?)['"] shared by class_re and attr_re, tried at
\* offset i of a: the value ends at the next quote character of either kind
QuotedValue(a, i) ==
    LET eq      == SkipRun(a, i, Space)
        q       == IF eq < Len(a) /\ a[eq + 1] = "="
                   THEN SkipRun(a, eq + 1, Space) ELSE Len(a)
        closers == {r \in (q + 1)..(Len(a) - 1) : a[r + 1] \in Quote}
    IN  IF q < Len(a) /\ a[q + 1] \in Quote /\ closers # {}
        THEN [ok |-> TRUE, value |-> Slice(a, q + 1, Min(closers)),
              end |-> Min(closers) + 1]
        ELSE [ok |-> FALSE, value |-> <<>>, end |-> i]

ClassWord == <<"c","l","a","s","s">>

\* class_re = class\s*=\s*['"]([^'"]*?)['"] matches at offset i
ClassReAt(a, i) ==
    /\ Occurs(a, ClassWord, i)
    /\ QuotedValue(a, i + Len(ClassWord)).ok

ClassReFound(a) == \E i \in 0..(Len(a) - 1) : ClassReAt(a, i)

\* group 1 of the leftmost match of class_re
ClassReValue(a) ==
    LET i == Min({k \in 0..(Len(a) - 1) : ClassReAt(a, k)})
    IN  QuotedValue(a, i + Len(ClassWord)).value

\* attr_re = ([a-zA-Z][a-zA-Z0-9-]*)\s*=\s*['"]([^'"]*?)['"] matches at offset i
AttrReAt(a, i) ==
    /\ i < Len(a)
    /\ a[i + 1] \in Alpha
    /\ QuotedValue(a, SkipRun(a, i + 1, AttrNameChar)).ok

\* attr_re.captures_iter(a) from offset `from`: the successive leftmost
\* non-overlapping matches, each pushed as (key, value)
RECURSIVE ParseAttributes(_, _)
ParseAttributes(a, from) ==
    LET starts == {i \in from..(Len(a) - 1) : AttrReAt(a, i)}
    IN  IF starts = {} THEN <<>>
        ELSE LET i == Min(starts)
                 k == SkipRun(a, i + 1, AttrNameChar)
                 v == QuotedValue(a, k)
             IN  << <<Slice(a, i, k), v.value>> >> \o ParseAttributes(a, v.end)

-----------------------------------------------------------------------------
(* Element and Element::get_attr.  An Option is <<>> (None) or <<v>>.      *)

Element(tag_name, attributes, content) ==
    [tag_name |-> tag_name, attributes |-> attributes, content |-> content]

\* self.attributes.iter().find(|(key, _)| key == name).map(|(_, value)| value)
GetAttr(element, name) ==
    LET hits == {i \in 1..Len(element.attributes) :
                    element.attributes[i][1] = name}
    IN  IF hits = {} THEN <<>> ELSE <<element.attributes[Min(hits)][2]>>

-----------------------------------------------------------------------------
(* The input texts.  A text is written from at most MaxChunks tokens: an   *)
(* opening tag with its attributes, a closing tag, or character data.      *)

MaxChunks == 4

Tok(kind, name, attrs, text) ==
    [kind |-> kind, name |-> name, attrs |-> attrs, text |-> text]

\* an attribute as written: name, the text between name and value ("=" with
\* optional blanks, or nothing for a name without value), the quote, the value
Attr(name, eq, q, value) == [name |-> name, eq |-> eq, q |-> q, value |-> value]

Eq == <<"=">>
Dq == <<"\"">>
Sq == <<"'">>

A_b      == <<"b">>
A_a      == <<"a">>
A_id     == <<"i","d">>
A_href   == <<"h","r","e","f">>
A_HREF   == <<"H","R","E","F">>
A_title  == <<"t","i","t","l","e">>
A_hidden == <<"h","i","d","d","e","n">>
A_class  == ClassWord
A_dclass == <<"d","a","t","a","-">> \o ClassWord

RenderAttr(at) ==
    <<" ">> \o at.name \o at.eq \o at.q \o at.value \o at.q

RECURSIVE RenderAttrs(_)
RenderAttrs(attrs) ==
    IF attrs = <<>> THEN <<>>
    ELSE RenderAttr(Head(attrs)) \o RenderAttrs(Tail(attrs))

\* the characters of a token; a closing tag may carry blanks before its ">"
Render(tok) ==
    CASE tok.kind = "open"  -> <<"<">> \o tok.name \o RenderAttrs(tok.attrs) \o <<">">>
      [] tok.kind = "close" -> <<"<", "/">> \o tok.name \o tok.text \o <<">">>
      [] OTHER              -> tok.text

RECURSIVE RenderAll(_)
RenderAll(toks) ==
    IF toks = <<>> THEN <<>> ELSE Render(Head(toks)) \o RenderAll(Tail(toks))

\* the offset in the text at which token k starts
OffsetOf(toks, k) == Len(RenderAll(SubSeq(toks, 1, k - 1)))

Open(name, attrs) == Tok("open", name, attrs, <<>>)
Close(name, blanks) == Tok("close", name, <<>>, blanks)
Text(chars) == Tok("text", <<>>, <<>>, chars)

TextX == Text(<<" ", "x", " ">>)

\* --- texts for find_elements_by_class ---
\* <b hidden id="1" class="d c" id="2">
TagMulti == Open(A_b, << Attr(A_hidden, <<>>, <<>>, <<>>),
                         Attr(A_id, Eq, Dq, <<"1">>),
                         Attr(A_class, Eq, Dq, <<"d", " ", "c">>),
                         Attr(A_id, Eq, Dq, <<"2">>) >>)
\* <b class = 'c' title="it's">
TagSingle == Open(A_b, << Attr(A_class, <<" ", "=", " ">>, Sq, <<"c">>),
                          Attr(A_title, Eq, Dq, <<"i","t","'","s">>) >>)
\* <b>
TagPlain == Open(A_b, <<>>)
\* <i class="cc">
TagOther == Open(<<"i">>, << Attr(A_class, Eq, Dq, <<"c","c">>) >>)
\* <b data-class="c" class="d">
TagData == Open(A_b, << Attr(A_dclass, Eq, Dq, <<"c">>),
                        Attr(A_class, Eq, Dq, <<"d">>) >>)
\* <bb>
TagLong == Open(<<"b","b">>, <<>>)

CloseB == Close(A_b, <<>>)

\* a text for the class search is a skeleton over two opening tags (one
\* from each list), the closing tag </b> and character data
FirstTags  == {TagMulti, TagSingle}
SecondTags == {TagPlain, TagOther, TagData, TagLong}
ClassNames == {<<>>, <<"c">>, <<"d">>}

Skeletons(n) == UNION {[1..k -> {"A", "B", "C", "T"}] : k \in 0..n}

Fill(skel, ta, tb) ==
    [k \in 1..Len(skel) |->
        CASE skel[k] = "A" -> ta
          [] skel[k] = "B" -> tb
          [] skel[k] = "C" -> CloseB
          [] OTHER         -> TextX]

ClassTexts ==
    {Fill(sk, ta, tb) : sk \in Skeletons(MaxChunks), ta \in FirstTags, tb \in SecondTags}

\* --- fragments for find_first_anchor ---
\* <a href="u">
AnchorTag == Open(A_a, << Attr(A_href, Eq, Dq, <<"u">>) >>)
\* <a HREF="w" href="u" href="z">
AnchorMulti == Open(A_a, << Attr(A_HREF, Eq, Dq, <<"w">>),
                            Attr(A_href, Eq, Dq, <<"u">>),
                            Attr(A_href, Eq, Dq, <<"z">>) >>)
\* <ab href="v">
AbbrTag == Open(<<"a","b">>, << Attr(A_href, Eq, Dq, <<"v">>) >>)
CloseA == Close(A_a, <<>>)
CloseASp == Close(A_a, <<" ">>)

AnchorTokens == {AnchorTag, AnchorMulti, AbbrTag, CloseA, CloseASp, TextX}
AnchorTexts == UNION {[1..k -> AnchorTokens] : k \in 0..MaxChunks}

\* the attribute names looked up with get_attr
AttrNames == {A_id, A_class, A_href, A_HREF, A_title}

-----------------------------------------------------------------------------
(* find_elements_by_class(html, class_name)                                *)

NoMatch == [start |-> 0, end |-> 0, tag_name |-> <<>>, attrs_str |-> <<>>]
NoCall  == [element |-> Element(<<>>, <<>>, <<>>), name |-> <<>>, result |-> <<>>]

\* format!("</{}>", tag_name) and format!("<{}", tag_name)
ClosingTag(tag_name) == <<"<", "/">> \o tag_name \o <<">">>
OpenPrefix(tag_name) == <<"<">> \o tag_name

\* class_re.captures(attrs_str) and the split_whitespace test
HasClass(attrs_str, name) ==
    /\ ClassReFound(attrs_str)
    /\ HasToken(ClassReValue(attrs_str), name)

\* the extractor is called on its own, outside get_beer_rating
NoCaller ==
    /\ stage = "none"
    /\ fetched = "none"
    /\ beer_items = <<>>
    /\ relative_url = <<>>
    /\ caps_divs = <<>>
    /\ rating_and_url = <<>>

\* fetch_untappd_ratings is not running
NoFetch ==
    /\ entries = <<>>
    /\ kv = <<>>
    /\ task = <<>>
    /\ results = <<>>
    /\ ratings = <<>>

Init ==
    /\ \/ /\ pc = "class"
          /\ chunks \in ClassTexts
          /\ class_name \in ClassNames
       \/ /\ pc = "anchor"
          /\ chunks \in AnchorTexts
          /\ class_name = <<>>
    /\ html = RenderAll(chunks)
    /\ search_pos = 0
    /\ elements = <<>>
    /\ spans = <<>>
    /\ cand = NoMatch
    /\ depth = 0
    /\ pos = 0
    /\ tag_end = 0
    /\ content_end = 0
    /\ anchor = <<>>
    /\ got = NoCall
    /\ NoCaller
    /\ NoFetch

\* if html.is_empty() || class_name.is_empty() { return Vec::new(); }
EarlyReturn ==
    /\ pc = "class"
    /\ html = <<>> \/ class_name = <<>>
    /\ pc' = "done"
    /\ UNCHANGED <<fetch_vars, caller_vars,
                   chunks, html, class_name, search_pos, elements, spans, cand,
                   depth, pos, tag_end, content_end, anchor, got>>

\* let mut elements = Vec::new(); ... let mut search_pos = 0;
Begin ==
    /\ pc = "class"
    /\ html # <<>> /\ class_name # <<>>
    /\ pc' = "scan"
    /\ elements' = <<>>
    /\ search_pos' = 0
    /\ UNCHANGED <<fetch_vars, caller_vars,
                   chunks, html, class_name, spans, cand, depth, pos, tag_end,
                   content_end, anchor, got>>

\* while let Some(tag_match) = ... fails: the function returns elements
ScanEnd ==
    /\ pc = "scan"
    /\ ~OpenTagFound(SliceFrom(html, search_pos))
    /\ pc' = "done"
    /\ UNCHANGED <<fetch_vars, caller_vars,
                   chunks, html, class_name, search_pos, elements, spans, cand,
                   depth, pos, tag_end, content_end, anchor, got>>

\* an opening tag without the class: search_pos += tag_match.end()
ScanSkip ==
    /\ pc = "scan"
    /\ OpenTagFound(SliceFrom(html, search_pos))
    /\ LET tag_match == OpenTagMatch(SliceFrom(html, search_pos))
       IN  /\ ~HasClass(tag_match.attrs_str, class_name)
           /\ search_pos' = search_pos + tag_match.end
    /\ UNCHANGED <<fetch_vars, caller_vars,
                   chunks, html, class_name, pc, elements, spans, cand, depth,
                   pos, tag_end, content_end, anchor, got>>

\* an opening tag with the class: set up the depth scan
ScanCandidate ==
    /\ pc = "scan"
    /\ OpenTagFound(SliceFrom(html, search_pos))
    /\ LET tag_match == OpenTagMatch(SliceFrom(html, search_pos))
       IN  /\ HasClass(tag_match.attrs_str, class_name)
           /\ cand' = tag_match
           /\ tag_end' = search_pos + tag_match.end
           /\ content_end' = search_pos + tag_match.end
           /\ pos' = search_pos + tag_match.end
    /\ depth' = 1
    /\ pc' = "depth"
    /\ UNCHANGED <<fetch_vars, caller_vars,
                   chunks, html, class_name, search_pos, elements, spans,
                   anchor, got>>

\* AfterDepthScan with the scan resumed at the start of the matched opening
\* tag (tag_match.start() taken for the end of the element)
AfterDepthScan_ResumeAtStart(d, ce) ==
    IF d = 0
    THEN /\ elements' = Append(elements,
                Element(cand.tag_name,
                        ParseAttributes(cand.attrs_str, 0),
                        Trim(Slice(html, tag_end, ce))))
         /\ spans' = Append(spans,
                [start       |-> search_pos + cand.start,
                 tag_end     |-> tag_end,
                 content_end |-> ce,
                 close_end   |-> ce + Len(ClosingTag(cand.tag_name))])
         /\ search_pos' = search_pos + cand.start
    ELSE /\ search_pos' = search_pos + cand.end
         /\ UNCHANGED <<elements, spans>>

\* AfterDepthScan with the scan resumed after the opening tag of the matched
\* element instead of after its closing tag
AfterDepthScan_ResumeInside(d, ce) ==
    IF d = 0
    THEN /\ elements' = Append(elements,
                Element(cand.tag_name,
                        ParseAttributes(cand.attrs_str, 0),
                        Trim(Slice(html, tag_end, ce))))
         /\ spans' = Append(spans,
                [start       |-> search_pos + cand.start,
                 tag_end     |-> tag_end,
                 content_end |-> ce,
                 close_end   |-> ce + Len(ClosingTag(cand.tag_name))])
         /\ search_pos' = tag_end
    ELSE /\ search_pos' = search_pos + cand.end
         /\ UNCHANGED <<elements, spans>>

\* AfterDepthScan without the test `if depth == 0`
AfterDepthScan_NoDepthTest(d, ce) ==
    /\ elements' = Append(elements,
           Element(cand.tag_name,
                   ParseAttributes(cand.attrs_str, 0),
                   Trim(Slice(html, tag_end, ce))))
    /\ spans' = Append(spans,
           [start       |-> search_pos + cand.start,
            tag_end     |-> tag_end,
            content_end |-> ce,
            close_end   |-> ce + Len(ClosingTag(cand.tag_name))])
    /\ search_pos' = ce + Len(ClosingTag(cand.tag_name))

\* the code after the depth scan, with the depth d and content end ce it
\* left: push the element and resume after its closing tag, or resume after
\* the opening tag
AfterDepthScan(d, ce) ==
    IF d = 0
    THEN /\ elements' = Append(elements,
                Element(cand.tag_name,
                        ParseAttributes(cand.attrs_str, 0),
                        Trim(Slice(html, tag_end, ce))))
         /\ spans' = Append(spans,
                [start       |-> search_pos + cand.start,
                 tag_end     |-> tag_end,
                 content_end |-> ce,
                 close_end   |-> ce + Len(ClosingTag(cand.tag_name))])
         /\ search_pos' = ce + Len(ClosingTag(cand.tag_name))
    ELSE /\ search_pos' = search_pos + cand.end
         /\ UNCHANGED <<elements, spans>>

NextOpenSome  == StrFindSome(SliceFrom(html, pos), OpenPrefix(cand.tag_name))
NextOpen      == StrFind(SliceFrom(html, pos), OpenPrefix(cand.tag_name))
NextCloseSome == StrFindSome(SliceFrom(html, pos), ClosingTag(cand.tag_name))
NextClose     == StrFind(SliceFrom(html, pos), ClosingTag(cand.tag_name))

\* DepthOpen with the cursor left on the opening prefix it found
\* (pos += o in place of pos += o + 1)
DepthOpen_NoSkip ==
    /\ pc = "depth"
    /\ pos < Len(html)
    /\ NextOpenSome /\ NextCloseSome /\ NextOpen < NextClose
    /\ depth' = depth + 1
    /\ pos' = pos + NextOpen
    /\ UNCHANGED <<fetch_vars, caller_vars,
                   chunks, html, class_name, pc, search_pos, elements, spans,
                   cand, tag_end, content_end, anchor, got>>

\* (Some(o), Some(c)) with o < c
DepthOpen ==
    /\ pc = "depth"
    /\ pos < Len(html)
    /\ NextOpenSome /\ NextCloseSome /\ NextOpen < NextClose
    /\ depth' = depth + 1
    /\ pos' = pos + NextOpen + 1
    /\ UNCHANGED <<fetch_vars, caller_vars,
                   chunks, html, class_name, pc, search_pos, elements, spans,
                   cand, tag_end, content_end, anchor, got>>

\* DepthClose without the nesting count: the first closing tag found ends
\* the element (depth = 0 in place of depth -= 1)
DepthClose_FirstCloser ==
    /\ pc = "depth"
    /\ pos < Len(html)
    /\ NextCloseSome
    /\ NextOpenSome => ~(NextOpen < NextClose)
    /\ depth' = 0
    /\ content_end' = pos + NextClose
    /\ AfterDepthScan(0, pos + NextClose)
    /\ pc' = "scan"
    /\ UNCHANGED <<fetch_vars, caller_vars,
                   chunks, html, class_name, cand, pos, tag_end, anchor, got>>

\* (Some(o), Some(c)) with c < o, or (None, Some(c))
DepthClose ==
    /\ pc = "depth"
    /\ pos < Len(html)
    /\ NextCloseSome
    /\ NextOpenSome => ~(NextOpen < NextClose)
    /\ depth' = depth - 1
    /\ IF depth - 1 = 0
       THEN /\ content_end' = pos + NextClose
            /\ AfterDepthScan(depth - 1, pos + NextClose)
            /\ pc' = "scan"
            /\ UNCHANGED pos
       ELSE /\ pos' = pos + NextClose + Len(ClosingTag(cand.tag_name))
            /\ UNCHANGED <<pc, search_pos, elements, spans, content_end>>
    /\ UNCHANGED <<fetch_vars, caller_vars,
                   chunks, html, class_name, cand, tag_end, anchor, got>>

\* the loop ends without a closing tag: `_ => break` or pos >= html.len()
DepthBreak ==
    /\ pc = "depth"
    /\ pos >= Len(html) \/ ~NextCloseSome
    /\ AfterDepthScan(depth, content_end)
    /\ pc' = "scan"
    /\ UNCHANGED <<fetch_vars, caller_vars,
                   chunks, html, class_name, cand, depth, pos, tag_end,
                   content_end, anchor, got>>

-----------------------------------------------------------------------------
(* find_first_anchor(html)                                                 *)

\* open_re = <a\s*([^>]*)> matches at offset i
AnchorOpenAt(s, i) ==
    /\ Occurs(s, <<"<", "a">>, i)
    /\ \E j \in (i + 2)..(Len(s) - 1) : s[j + 1] = ">"

AnchorOpenFound(s) == \E i \in 0..(Len(s) - 1) : AnchorOpenAt(s, i)

AnchorOpenMatch(s) ==
    LET start    == Min({i \in 0..(Len(s) - 1) : AnchorOpenAt(s, i)})
        attrs_at == SkipRun(s, start + 2, Space)
        gt       == Min({j \in (start + 2)..(Len(s) - 1) : s[j + 1] = ">"})
    IN  [start |-> start, end |-> gt + 1, tag_name |-> <<"a">>,
         attrs_str |-> Slice(s, attrs_at, gt)]

\* close_re = </a\s*> matches at offset i
AnchorCloseAt(s, i) ==
    /\ Occurs(s, <<"<", "/", "a">>, i)
    /\ LET e == SkipRun(s, i + 3, Space) IN e < Len(s) /\ s[e + 1] = ">"

AnchorCloseFound(s) == \E i \in 0..(Len(s) - 1) : AnchorCloseAt(s, i)
AnchorCloseStart(s) == Min({i \in 0..(Len(s) - 1) : AnchorCloseAt(s, i)})

\* find_first_anchor answering with an empty anchor element where it has no
\* opening tag to read (Some(Element::default()) in place of None)
FindFirstAnchorOf_NeverNone(s) ==
    IF s = <<>> \/ ~AnchorOpenFound(s) THEN << Element(<<"a">>, <<>>, <<>>) >>
    ELSE LET open_cap   == AnchorOpenMatch(s)
             after_open == SliceFrom(s, open_cap.end)
         IN  IF ~AnchorCloseFound(after_open) THEN <<>>
             ELSE << Element(<<"a">>,
                             ParseAttributes(open_cap.attrs_str, 0),
                             Trim(Slice(after_open, 0, AnchorCloseStart(after_open)))) >>

\* if html.is_empty() { return None; } and the two regex searches
FindFirstAnchorOf(s) ==
    IF s = <<>> \/ ~AnchorOpenFound(s) THEN <<>>
    ELSE LET open_cap   == AnchorOpenMatch(s)
             after_open == SliceFrom(s, open_cap.end)
         IN  IF ~AnchorCloseFound(after_open) THEN <<>>
             ELSE << Element(<<"a">>,
                             ParseAttributes(open_cap.attrs_str, 0),
                             Trim(Slice(after_open, 0, AnchorCloseStart(after_open)))) >>

FindFirstAnchor ==
    /\ pc = "anchor"
    /\ anchor' = FindFirstAnchorOf(html)
    /\ pc' = "anchor_done"
    /\ UNCHANGED <<fetch_vars, caller_vars,
                   chunks, html, class_name, search_pos, elements, spans, cand,
                   depth, pos, tag_end, content_end, got>>

-----------------------------------------------------------------------------
(* A caller looks an attribute up in a returned element.                   *)

Returned ==
    IF pc = "done" THEN {elements[i] : i \in 1..Len(elements)}
    ELSE IF pc = "anchor_done" THEN {anchor[i] : i \in 1..Len(anchor)}
    ELSE {}

CallGetAttr ==
    /\ \E e \in Returned, name \in AttrNames :
          got' = [element |-> e, name |-> name, result |-> GetAttr(e, name)]
    /\ pc' = "got"
    /\ UNCHANGED <<fetch_vars, caller_vars,
                   chunks, html, class_name, search_pos, elements, spans, cand,
                   depth, pos, tag_end, content_end, anchor>>

Next ==
    \/ EarlyReturn
    \/ Begin
    \/ ScanEnd
    \/ ScanSkip
    \/ ScanCandidate
    \/ DepthOpen
    \/ DepthClose
    \/ DepthBreak
    \/ FindFirstAnchor
    \/ CallGetAttr

Spec == Init /\ [][Next]_vars

-----------------------------------------------------------------------------
(* What the input text says, read off the tokens it was written from: the  *)
(* properties below compare the extractor's results with it.               *)

OpenChunks == {k \in 1..Len(chunks) : chunks[k].kind = "open"}
StartOf(k) == OffsetOf(chunks, k)
EndOf(k)   == OffsetOf(chunks, k) + Len(Render(chunks[k]))

\* the whitespace-separated words of a value
Words(v) ==
    {Slice(v, i, j) : <<i, j>> \in
        {ij \in (0..Len(v)) \X (0..Len(v)) :
            /\ ij[1] < ij[2]
            /\ \A x \in (ij[1] + 1)..ij[2] : v[x] \notin Space
            /\ (IF ij[1] = 0 THEN TRUE ELSE v[ij[1]] \in Space)
            /\ (IF ij[2] = Len(v) THEN TRUE ELSE v[ij[2] + 1] \in Space)}}

\* the tag has an attribute named exactly class, with a quoted value, whose
\* words include c
Carries(tok, c) ==
    /\ tok.kind = "open"
    /\ \E n \in 1..Len(tok.attrs) :
          /\ tok.attrs[n].name = A_class
          /\ tok.attrs[n].q # <<>>
          /\ c \in Words(tok.attrs[n].value)

IsQuoted(at) == at.q # <<>>

\* the quoted name/value pairs of a tag, in their order of appearance
QuotedPairs(tok) ==
    LET qs == SelectSeq(tok.attrs, IsQuoted)
    IN  [n \in 1..Len(qs) |-> <<qs[n].name, qs[n].value>>]

IsPrefix(p, name) == Len(p) <= Len(name) /\ SubSeq(name, 1, Len(p)) = p

\* the depth counter of an element opened by token k, after token m: one,
\* plus the later opening tags whose name begins with its name, minus the
\* later closing tags of its name
DepthAfter(k, m) ==
    1 + Cardinality({j \in (k + 1)..m : /\ chunks[j].kind = "open"
                                        /\ IsPrefix(chunks[k].name, chunks[j].name)})
      - Cardinality({j \in (k + 1)..m : /\ chunks[j].kind = "close"
                                        /\ chunks[j].name = chunks[k].name
                                        /\ chunks[j].text = <<>>})

\* the closing tags that bring the counter of the element opened at k to zero
Closers(k) == {m \in (k + 1)..Len(chunks) : DepthAfter(k, m) = 0}
IsClosed(k) == Closers(k) # {}
CloserOf(k) == Min(Closers(k))

\* t is s without its leading and trailing whitespace
IsTrimOf(t, s) ==
    \E i \in 0..Len(s) : \E j \in i..Len(s) :
        /\ t = Slice(s, i, j)
        /\ \A x \in 1..i : s[x] \in Space
        /\ \A x \in (j + 1)..Len(s) : s[x] \in Space
        /\ (IF t = <<>> THEN TRUE ELSE t[1] \notin Space /\ t[Len(t)] \notin Space)

\* the returned elements that were cut at the opening tag k
ReturnedAt(k) == {i \in 1..Len(spans) : spans[i].start = StartOf(k)}

\* token k lies inside a returned element (after its opening tag's start and
\* before its closing tag's end)
InsideReturned(k) ==
    \E i \in 1..Len(spans) :
        spans[i].start < StartOf(k) /\ StartOf(k) < spans[i].close_end

-----------------------------------------------------------------------------
(* The properties.                                                         *)

\* C1: the returned elements are in strictly increasing order of the start
\* of their opening tags, so no opening tag yields two elements.
C1_DocumentOrder ==
    /\ Len(spans) = Len(elements)
    /\ \A i \in 1..Len(spans) : \E k \in OpenChunks : spans[i].start = StartOf(k)
    /\ \A i \in 1..Len(spans) : \A j \in 1..Len(spans) :
          i < j => spans[i].start < spans[j].start

C1_Witness == pc = "done" /\ Len(elements) >= 2

\* C2: every returned element comes from an opening tag with an attribute
\* named exactly class whose whitespace-separated words include class_name.
C2_TokenExactClass ==
    \A i \in 1..Len(spans) :
        \E k \in OpenChunks :
            spans[i].start = StartOf(k) /\ Carries(chunks[k], class_name)

\* C3: every opening tag reached by the scan that carries class_name in its
\* class attribute and whose closing tag the depth count finds is returned,
\* whatever its other attributes and wherever the class attribute stands.
C3_Complete ==
    pc = "done" =>
        \A k \in OpenChunks :
            (Carries(chunks[k], class_name) /\ IsClosed(k) /\ ~InsideReturned(k))
                => ReturnedAt(k) # {}

\* the elements that enclose token k: opened before it, closed after it
Ancestors(k) == {j \in OpenChunks : j < k /\ IsClosed(j) /\ CloserOf(j) > k}

\* C4: an element carrying class_name whose ancestors do not carry it is
\* returned by the one call on the whole text.
C4_AncestorsDoNotHide ==
    pc = "done" =>
        \A k \in OpenChunks :
            (/\ Carries(chunks[k], class_name)
             /\ IsClosed(k)
             /\ Ancestors(k) # {}
             /\ \A j \in Ancestors(k) : ~Carries(chunks[j], class_name))
                => ReturnedAt(k) # {}

\* the spans of the returned elements, opening tag start to closing tag
\* end, lie one after the other
DisjointSpans ==
    \A i \in 1..Len(spans) : \A j \in 1..Len(spans) :
        i < j => spans[i].close_end <= spans[j].start

\* C5: a step that pushes an element leaves search_pos immediately after
\* the closing tag matched to it; the spans of the returned elements are
\* disjoint, and no tag inside a returned element is returned as well.
C5_ResumeAfterClose ==
    [][ /\ Len(spans') > Len(spans) =>
              \E k \in OpenChunks :
                  /\ spans'[Len(spans')].start = StartOf(k)
                  /\ IsClosed(k)
                  /\ search_pos' = EndOf(CloserOf(k))
                  /\ spans'[Len(spans')].close_end = EndOf(CloserOf(k))
        /\ DisjointSpans'
        /\ \A k \in OpenChunks : InsideReturned(k)' => (ReturnedAt(k) = {})'
      ]_vars

C5_Witness ==
    /\ pc = "done"
    /\ \E k \in OpenChunks :
          /\ Carries(chunks[k], class_name)
          /\ IsClosed(k)
          /\ InsideReturned(k)
          /\ ReturnedAt(k) = {}

\* C6: an element is pushed only by a step of the depth scan that brings
\* the depth to zero; a depth scan that ends above zero pushes nothing and
\* leaves search_pos just past the opening tag of the candidate.
C6_UnbalancedDiscarded ==
    [][ /\ Len(elements') > Len(elements) =>
              pc = "depth" /\ depth' = 0 /\ Len(elements') = Len(elements) + 1
        /\ (pc = "depth" /\ pc' = "scan" /\ depth' > 0) =>
              /\ elements' = elements
              /\ \E k \in OpenChunks :
                    /\ StartOf(k) = search_pos + cand.start
                    /\ search_pos' = EndOf(k)
      ]_vars

\* a candidate carrying the class was dropped and a later one returned
C6_Witness ==
    /\ pc = "done"
    /\ Len(chunks) >= 2
    /\ Carries(chunks[1], class_name)
    /\ HasClass(OpenTagMatch(html).attrs_str, class_name)
    /\ ~IsClosed(1)
    /\ ReturnedAt(1) = {}
    /\ ReturnedAt(2) # {}

\* C7: the content of a returned element is the text between the end of
\* its opening tag and the start of its matched closing tag, without the
\* whitespace at its two ends.
C7_Content ==
    \A i \in 1..Len(elements) :
        \E k \in OpenChunks :
            /\ spans[i].start = StartOf(k)
            /\ IsClosed(k)
            /\ EndOf(k) <= StartOf(CloserOf(k))
            /\ IsTrimOf(elements[i].content,
                        Slice(html, EndOf(k), StartOf(CloserOf(k))))

\* an element whose content had whitespace to trim and holds a nested tag
C7_Witness ==
    /\ pc = "done"
    /\ \E i \in 1..Len(elements) :
          /\ elements[i].content # Slice(html, spans[i].tag_end, spans[i].content_end)
          /\ \E k \in OpenChunks : InsideReturned(k)

\* the opening tags named a, and the closing tags of a after token k
AnchorOpens == {k \in OpenChunks : chunks[k].name = A_a}
AnchorClosers(k) ==
    {m \in (k + 1)..Len(chunks) : chunks[m].kind = "close" /\ chunks[m].name = A_a}

\* C8: when the fragment holds an anchor, find_first_anchor returns the
\* attributes of the first opening tag named a and the trimmed text from
\* the end of that tag to the first closing tag of a after it.
C8_FirstAnchor ==
    (pc = "anchor_done" /\ AnchorOpens # {}) =>
        LET k == Min(AnchorOpens)
        IN  AnchorClosers(k) # {} =>
              /\ Len(anchor) = 1
              /\ anchor[1].attributes = QuotedPairs(chunks[k])
              /\ IsTrimOf(anchor[1].content,
                          Slice(html, EndOf(k), StartOf(Min(AnchorClosers(k)))))

\* C9: find_first_anchor returns none when the fragment has no opening tag
\* named a, or no closing tag of a after the first one.
C9_NoAnchorNone ==
    pc = "anchor_done" =>
        ((IF AnchorOpens = {} THEN TRUE ELSE AnchorClosers(Min(AnchorOpens)) = {})
            => anchor = <<>>)

\* C10: the attributes of a returned element are the quoted name/value
\* pairs of its opening tag in order, repeated names kept; get_attr gives
\* the value of the first entry with exactly that name, or none.
C10_AttributeList ==
    /\ \A i \in 1..Len(elements) :
          \E k \in OpenChunks :
              /\ spans[i].start = StartOf(k)
              /\ elements[i].attributes = QuotedPairs(chunks[k])
    /\ pc = "got" =>
          LET at == got.element.attributes
          IN  /\ Len(got.result) <= 1
              /\ got.result = <<>> <=> \A n \in 1..Len(at) : at[n][1] # got.name
              /\ got.result # <<>> =>
                    \E n \in 1..Len(at) :
                        /\ at[n] = <<got.name, got.result[1]>>
                        /\ \A x \in 1..(n - 1) : at[x][1] # got.name


-----------------------------------------------------------------------------
\* C11: find_elements_by_class returns an empty vector when the document is
\* empty or the class name is empty, whatever the other argument is, and
\* find_first_anchor returns None for an empty fragment.
C11_EmptyInputs ==
    /\ (pc = "done" /\ (html = <<>> \/ class_name = <<>>)) => elements = <<>>
    /\ (pc = "anchor_done" /\ html = <<>>) => anchor = <<>>

\* the call with an empty class name has returned on a document that has an
\* opening tag with a class attribute
C11_Witness ==
    /\ pc = "done"
    /\ class_name = <<>>
    /\ \E k \in OpenChunks : \E c \in ClassNames : Carries(chunks[k], c)


-----------------------------------------------------------------------------
\* C12: find_elements_by_class ends without a panic.  Every pass of the
\* outer scan leaves search_pos larger than it found it, every pass of the
\* depth scan that stays in the loop leaves pos larger, none of search_pos,
\* pos, tag_end and content_end passes the length of the document, and where
\* an element is pushed its content is cut at tag_end <= content_end.
C12_Progress ==
    [][ /\ (pc = "scan" /\ pc' = "scan") => search_pos' > search_pos
        /\ (pc = "depth" /\ pc' = "scan") => search_pos' > search_pos
        /\ (pc = "depth" /\ pc' = "depth") => pos' > pos
        /\ search_pos' <= Len(html)
        /\ pos' <= Len(html)
        /\ tag_end' <= Len(html)
        /\ content_end' <= Len(html)
        /\ Len(elements') > Len(elements) => tag_end' <= content_end'
      ]_vars

\* a second candidate is being resolved, after a pass of the outer scan, and
\* the depth scan has counted a nested opening prefix
C12_Witness ==
    /\ pc = "depth"
    /\ search_pos > 0
    /\ depth = 2
    /\ pos > tag_end


-----------------------------------------------------------------------------
\* the occurrences of a pattern that start at the offsets from..(to - 1) of
\* the document
OccurrencesIn(pat, from, to) == {q \in from..(to - 1) : Occurs(html, pat, q)}

\* the counter at an occurrence of </t> at offset p, counted from offset
\* `from`: 1 + the <t prefixes before p - the </t> up to and including p
CounterAt(t, from, p) ==
    1 + Cardinality(OccurrencesIn(OpenPrefix(t), from, p))
      - Cardinality(OccurrencesIn(ClosingTag(t), from, p + 1))

\* the occurrences of </t> from offset `from` on at which the counter is zero
ZeroPoints(t, from) ==
    {p \in from..Len(html) :
        Occurs(html, ClosingTag(t), p) /\ CounterAt(t, from, p) = 0}

\* C14: when the depth scan of a candidate with tag name t ends, the element
\* is pushed exactly if some </t> after the opening tag brings the counter
\* 1 + (<t prefixes so far) - (</t> so far) to zero, its content ends at the
\* earliest such </t>, and the content holds as many <t prefixes as </t>.
C14_CounterZero ==
    [][ (pc = "depth" /\ pc' = "scan") =>
          LET t == cand.tag_name
              Z == ZeroPoints(t, tag_end)
          IN  IF Z = {} THEN elements' = elements
              ELSE /\ Len(elements') = Len(elements) + 1
                   /\ spans'[Len(spans')].tag_end = tag_end
                   /\ spans'[Len(spans')].content_end = Min(Z)
                   /\ Cardinality(OccurrencesIn(OpenPrefix(t), tag_end, Min(Z)))
                        = Cardinality(OccurrencesIn(ClosingTag(t), tag_end, Min(Z)))
      ]_vars

\* an element was returned whose content holds the opening tag <bb>, a
\* prefix occurrence for the tag name b, and so a </b> before its own
C14_Witness ==
    /\ pc = "done"
    /\ \E i \in 1..Len(spans), k \in OpenChunks :
          /\ chunks[k] = TagLong
          /\ elements[i].tag_name = A_b
          /\ spans[i].tag_end <= StartOf(k)
          /\ StartOf(k) < spans[i].content_end


-----------------------------------------------------------------------------
\* the attribute is written name="v" or name='v' and v is free of the quote
\* character that opens it
WellQuoted(at) ==
    /\ at.q # <<>>
    /\ \A n \in 1..Len(at.value) : <<at.value[n]>> # at.q

\* C15: for every returned element, each attribute of its opening tag
\* written name="v" or name='v', v free of its own quote character, is
\* captured as the pair (name, v) with v whole, also where v holds the other
\* quote character, and the attributes written without a quoted value add
\* no pair.
C15_QuoteStyles ==
    \A i \in 1..Len(elements) :
        \E k \in OpenChunks :
            /\ spans[i].start = StartOf(k)
            /\ \A n \in 1..Len(chunks[k].attrs) :
                  WellQuoted(chunks[k].attrs[n]) =>
                      \E x \in 1..Len(elements[i].attributes) :
                          elements[i].attributes[x] =
                              <<chunks[k].attrs[n].name, chunks[k].attrs[n].value>>
            /\ Len(elements[i].attributes) =
                  Cardinality({n \in 1..Len(chunks[k].attrs) :
                                  chunks[k].attrs[n].q # <<>>})


-----------------------------------------------------------------------------
(* get_beer_rating(search_string) of src/b30/lib.rs: the search page is    *)
(* fetched, find_elements_by_class and find_first_anchor are run on it,    *)
(* and the rating link is formatted, or "N/A" returned.                    *)

T_div         == <<"d","i","v">>
A_data_rating == <<"d","a","t","a","-","r","a","t","i","n","g">>
BeerItemClass == <<"b","e","e","r","-","i","t","e","m">>
CapsClass     == <<"c","a","p","s">>

\* const BASE_UNTAPPD_URL: &str = "https://untappd.com";
BASE_UNTAPPD_URL ==
    <<"h","t","t","p","s",":","/","/","u","n","t","a","p","p","d",".","c","o","m">>

\* "N/A".to_string()
NA == <<"N","/","A">>

\* format!("<a href=\"{}{}\">{}</a>", BASE_UNTAPPD_URL, relative_url, rating)
FormatRating(url, rating) ==
    <<"<","a"," ","h","r","e","f","=","\"">> \o BASE_UNTAPPD_URL \o url
        \o <<"\"",">">> \o rating \o <<"<","/","a",">">>

\* --- the search pages ---
\* <div class="beer-item">, <div class="x">, </div>
ItemTag  == Open(T_div, << Attr(A_class, Eq, Dq, BeerItemClass) >>)
OtherDiv == Open(T_div, << Attr(A_class, Eq, Dq, <<"x">>) >>)
CloseDiv == Close(T_div, <<>>)
\* <a href="/1">, <a href="/2">, <a title="t">
AnchorHref1  == Open(A_a, << Attr(A_href, Eq, Dq, <<"/","1">>) >>)
AnchorHref2  == Open(A_a, << Attr(A_href, Eq, Dq, <<"/","2">>) >>)
AnchorNoHref == Open(A_a, << Attr(A_title, Eq, Dq, <<"t">>) >>)
\* <div class="caps" data-rating="4.2">, <div class="caps" data-rating="3.9">,
\* <div class="caps">
Caps42 == Open(T_div, << Attr(A_class, Eq, Dq, CapsClass),
                         Attr(A_data_rating, Eq, Dq, <<"4",".","2">>) >>)
Caps39 == Open(T_div, << Attr(A_class, Eq, Dq, CapsClass),
                         Attr(A_data_rating, Eq, Dq, <<"3",".","9">>) >>)
CapsNoRating == Open(T_div, << Attr(A_class, Eq, Dq, CapsClass) >>)

\* what a beer-item may hold of anchors: none, one with or without href, one
\* left open, two, or an <ab href="v"> element before the anchor
AnchorParts ==
    { <<>>,
      <<AnchorHref1, TextX, CloseA>>,
      <<AnchorNoHref, CloseA>>,
      <<AnchorHref1>>,
      <<AnchorHref1, CloseA, AnchorHref2, CloseA>>,
      <<AnchorNoHref, CloseA, AnchorHref2, CloseA>>,
      <<AbbrTag, Close(<<"a","b">>, <<>>), AnchorHref1, CloseA>> }

\* what a beer-item may hold of caps elements: none, one with or without
\* data-rating, one left open, two
CapsParts ==
    { <<>>,
      <<Caps42, CloseDiv>>,
      <<CapsNoRating, CloseDiv>>,
      <<Caps42>>,
      <<Caps42, CloseDiv, Caps39, CloseDiv>>,
      <<CapsNoRating, CloseDiv, Caps39, CloseDiv>> }

\* a beer-item with its parts in either order, closed or left open
ItemBlocks ==
    { <<ItemTag>> \o a \o c \o e : a \in AnchorParts, c \in CapsParts,
                                   e \in {<<>>, <<CloseDiv>>} }
    \cup { <<ItemTag>> \o c \o a \o <<CloseDiv>> : a \in AnchorParts, c \in CapsParts }

\* a complete second beer-item
SecondItem == <<ItemTag, AnchorHref2, CloseA, Caps39, CloseDiv, CloseDiv>>

RatingPages ==
    { <<>>, <<TextX>> }
    \cup ItemBlocks
    \cup { <<OtherDiv, CloseDiv>> \o b : b \in ItemBlocks }
    \cup { b \o SecondItem : b \in ItemBlocks }

\* the steps before the page text is in hand, each of which may fail:
\* Url::parse_with_params, Headers::set, Request::new_with_init, send, text
FetchOutcomes == {"ok", "url", "headers", "request", "send", "text"}

InitRating ==
    /\ pc = "rating"
    /\ stage = "start"
    /\ chunks \in RatingPages
    /\ fetched \in FetchOutcomes
    /\ html = <<>>
    /\ class_name = <<>>
    /\ search_pos = 0
    /\ elements = <<>>
    /\ spans = <<>>
    /\ cand = NoMatch
    /\ depth = 0
    /\ pos = 0
    /\ tag_end = 0
    /\ content_end = 0
    /\ anchor = <<>>
    /\ got = NoCall
    /\ beer_items = <<>>
    /\ relative_url = <<>>
    /\ caps_divs = <<>>
    /\ rating_and_url = <<>>
    /\ NoFetch

\* scraper::find_elements_by_class(text, name) is entered
CallExtractor(text, name) ==
    /\ html' = text
    /\ class_name' = name
    /\ pc' = "class"
    /\ search_pos' = 0
    /\ elements' = <<>>
    /\ spans' = <<>>
    /\ cand' = NoMatch
    /\ depth' = 0
    /\ pos' = 0
    /\ tag_end' = 0
    /\ content_end' = 0

\* a `?` of get_beer_rating_internal takes the error out, and
\* get_beer_rating turns it into Err(e) => "N/A".to_string()
ReturnNA ==
    /\ rating_and_url' = NA
    /\ stage' = "rated"

\* the URL, the headers, the request, send() and text(): any of them
\* failing ends the call, else the page text is in hand
SendRequest ==
    /\ stage = "start"
    /\ IF fetched = "ok"
       THEN /\ stage' = "page"
            /\ UNCHANGED rating_and_url
       ELSE ReturnNA
    /\ UNCHANGED <<fetch_vars,
                   chunks, html, class_name, pc, search_pos, elements, spans,
                   cand, depth, pos, tag_end, content_end, anchor, got,
                   fetched, beer_items, relative_url, caps_divs>>

\* scraper::find_elements_by_class(&html, "beer-item")
CallForItems ==
    /\ stage = "page"
    /\ CallExtractor(RenderAll(chunks), BeerItemClass)
    /\ stage' = "items"
    /\ UNCHANGED <<fetch_vars,
                   chunks, anchor, got, fetched, beer_items, relative_url,
                   caps_divs, rating_and_url>>

\* beer_items.first().ok_or_else(..)?
FirstBeerItem ==
    /\ stage = "items"
    /\ pc = "done"
    /\ beer_items' = elements
    /\ pc' = "rating"
    /\ IF elements = <<>>
       THEN ReturnNA
       ELSE /\ stage' = "anchor"
            /\ UNCHANGED rating_and_url
    /\ UNCHANGED <<fetch_vars,
                   chunks, html, class_name, search_pos, elements, spans, cand,
                   depth, pos, tag_end, content_end, anchor, got, fetched,
                   relative_url, caps_divs>>

\* scraper::find_first_anchor(beer_item.get_content()).ok_or_else(..)?
FirstAnchor ==
    /\ stage = "anchor"
    /\ anchor' = FindFirstAnchorOf(beer_items[1].content)
    /\ IF anchor' = <<>>
       THEN ReturnNA
       ELSE /\ stage' = "href"
            /\ UNCHANGED rating_and_url
    /\ UNCHANGED <<fetch_vars,
                   chunks, html, class_name, pc, search_pos, elements, spans,
                   cand, depth, pos, tag_end, content_end, got, fetched,
                   beer_items, relative_url, caps_divs>>

\* anchor.get_attr("href").ok_or_else(..)?
ReadHref ==
    /\ stage = "href"
    /\ LET href == GetAttr(anchor[1], A_href)
       IN  IF href = <<>>
           THEN /\ ReturnNA
                /\ UNCHANGED relative_url
           ELSE /\ relative_url' = href
                /\ stage' = "caps_call"
                /\ UNCHANGED rating_and_url
    /\ UNCHANGED <<fetch_vars,
                   chunks, html, class_name, pc, search_pos, elements, spans,
                   cand, depth, pos, tag_end, content_end, anchor, got,
                   fetched, beer_items, caps_divs>>

\* scraper::find_elements_by_class(beer_item.get_content(), "caps")
CallForCaps ==
    /\ stage = "caps_call"
    /\ CallExtractor(beer_items[1].content, CapsClass)
    /\ stage' = "caps"
    /\ UNCHANGED <<fetch_vars,
                   chunks, anchor, got, fetched, beer_items, relative_url,
                   caps_divs, rating_and_url>>

\* caps_divs.first().ok_or_else(..)?
FirstCaps ==
    /\ stage = "caps"
    /\ pc = "done"
    /\ caps_divs' = elements
    /\ pc' = "rating"
    /\ IF elements = <<>>
       THEN ReturnNA
       ELSE /\ stage' = "rating"
            /\ UNCHANGED rating_and_url
    /\ UNCHANGED <<fetch_vars,
                   chunks, html, class_name, search_pos, elements, spans, cand,
                   depth, pos, tag_end, content_end, anchor, got, fetched,
                   beer_items, relative_url>>

\* caps.get_attr("data-rating").ok_or_else(..)? and the Ok(format!(..)) that
\* get_beer_rating hands on
ReadRating ==
    /\ stage = "rating"
    /\ LET rating == GetAttr(caps_divs[1], A_data_rating)
       IN  IF rating = <<>>
           THEN ReturnNA
           ELSE /\ rating_and_url' = FormatRating(relative_url[1], rating[1])
                /\ stage' = "rated"
    /\ UNCHANGED <<fetch_vars,
                   chunks, html, class_name, pc, search_pos, elements, spans,
                   cand, depth, pos, tag_end, content_end, anchor, got,
                   fetched, beer_items, relative_url, caps_divs>>

NextRating ==
    \/ SendRequest
    \/ CallForItems
    \/ EarlyReturn
    \/ Begin
    \/ ScanEnd
    \/ ScanSkip
    \/ ScanCandidate
    \/ DepthOpen
    \/ DepthClose
    \/ DepthBreak
    \/ FirstBeerItem
    \/ FirstAnchor
    \/ ReadHref
    \/ CallForCaps
    \/ FirstCaps
    \/ ReadRating

SpecRating == InitRating /\ [][NextRating]_vars

-----------------------------------------------------------------------------
(* What the search page says, read off its tokens.                         *)

\* the beer-item elements: the opening tags that carry the class and have
\* their closing tag
RatingItems ==
    {k \in OpenChunks : Carries(chunks[k], BeerItemClass) /\ IsClosed(k)}
FirstItem == Min(RatingItems)

\* the tokens between the opening and the closing tag of the first beer-item
ItemContent == (FirstItem + 1)..(CloserOf(FirstItem) - 1)

\* the anchors in that content: an <a ..> with an </a> after it
ItemAnchors ==
    {j \in ItemContent :
        /\ chunks[j].kind = "open"
        /\ chunks[j].name = A_a
        /\ \E m \in ItemContent :
              m > j /\ chunks[m].kind = "close" /\ chunks[m].name = A_a}

\* the caps elements in that content
ItemCaps ==
    {j \in ItemContent :
        /\ Carries(chunks[j], CapsClass)
        /\ IsClosed(j)
        /\ CloserOf(j) < CloserOf(FirstItem)}

\* the value of the first quoted attribute of that name in a tag, as an Option
TokenAttr(tok, name) ==
    LET hits == {n \in 1..Len(tok.attrs) :
                    IsQuoted(tok.attrs[n]) /\ tok.attrs[n].name = name}
    IN  IF hits = {} THEN <<>> ELSE <<tok.attrs[Min(hits)].value>>

\* the string the page stands for: "N/A" when a step has nothing to read
PageRating ==
    IF fetched # "ok" \/ RatingItems = {} THEN NA
    ELSE IF ItemAnchors = {} \/ ItemCaps = {} THEN NA
    ELSE LET href   == TokenAttr(chunks[Min(ItemAnchors)], A_href)
             rating == TokenAttr(chunks[Min(ItemCaps)], A_data_rating)
         IN  IF href = <<>> \/ rating = <<>> THEN NA
             ELSE <<"<","a"," ","h","r","e","f","=","\"",
                    "h","t","t","p","s",":","/","/",
                    "u","n","t","a","p","p","d",".","c","o","m">>
                  \o href[1] \o <<"\"",">">> \o rating[1] \o <<"<","/","a",">">>

\* C13: get_beer_rating always returns a string: "N/A" exactly when the
\* request or the response fails, the page has no beer-item element, the
\* first beer-item has no anchor, that anchor no href, the beer-item no caps
\* element, or the first caps element no data-rating; else the link
\* <a href="https://untappd.com + href + "> + rating + </a> of the first
\* beer-item, its first anchor and its first caps element.
C13_RatingOrNA ==
    stage = "rated" => rating_and_url = PageRating


-----------------------------------------------------------------------------
(* fetch_untappd_ratings(entries, kv) of src/b30/lib.rs: one future per    *)
(* entry (cache read, remote lookup, cache write), at most                 *)
(* CONCURRENT_REQUESTS of them in flight, their results collected in the   *)
(* order they complete and then placed by index.  A future is one of       *)
(* "idle" (not polled yet), "get", "lookup", "put" (awaiting that call) or *)
(* "done".                                                                 *)

\* const CONCURRENT_REQUESTS: u32 = 5;
CONCURRENT_REQUESTS == 5
\* const CACHE_TTL_SECONDS: u64 = 7 * 24 * 60 * 60;
CACHE_TTL_SECONDS == 7 * 24 * 60 * 60

MaxEntries == 3

UpperSeq == <<"A","B","C","D","E","F","G","H","I","J","K","L","M",
              "N","O","P","Q","R","S","T","U","V","W","X","Y","Z">>
LowerSeq == <<"a","b","c","d","e","f","g","h","i","j","k","l","m",
              "n","o","p","q","r","s","t","u","v","w","x","y","z">>

\* str::to_lowercase on the letters A-Z
ToLowercase(s) ==
    [n \in 1..Len(s) |->
        IF s[n] \in Upper
        THEN LowerSeq[CHOOSE x \in 1..26 : UpperSeq[x] = s[n]]
        ELSE s[n]]

\* format!("rating:{}:{}", brewery.to_lowercase(), name.to_lowercase())
generate_cache_key(brewery, name) ==
    <<"r","a","t","i","n","g",":">> \o ToLowercase(brewery) \o <<":">>
        \o ToLowercase(name)

\* format!("{} {}", entry.brewery, entry.name)
SearchString(entry) == entry.brewery \o <<" ">> \o entry.name

BeerEntry(brewery, name) == [brewery |-> brewery, name |-> name]

\* the beers: the first and the last differ in letter case only and share
\* a cache key
Beers == << BeerEntry(<<"x">>, <<"a">>),
            BeerEntry(<<"x">>, <<"b">>),
            BeerEntry(<<"x">>, <<"A">>) >>

\* the entry lists: up to MaxEntries beers, taken in turn from either the
\* first or the second of Beers on
EntryLists ==
    { [n \in 1..k |-> Beers[((n + o) % Len(Beers)) + 1]] :
        k \in 0..MaxEntries, o \in {2, 0} }
CacheKeys ==
    {generate_cache_key(Beers[n].brewery, Beers[n].name) : n \in 1..Len(Beers)}

\* what the cache holds under a key at the start: nothing, or a rating
\* written by an earlier run
StoredRating == FormatRating(<<"/","0">>, <<"3",".","9">>)
Stored(value, ttl) == [value |-> value, ttl |-> ttl]
Caches == [CacheKeys -> {<<>>, << Stored(StoredRating, CACHE_TTL_SECONDS) >>}]

\* the link a successful remote lookup of a search string answers with
SearchResult(search_string) ==
    FormatRating(<<"/">> \o SelectSeq(search_string, LAMBDA ch : ch # " "),
                 <<"4",".","2">>)

IdleTask == [pc |-> "idle", read |-> "none", rating |-> <<>>, wrote |-> "none"]

InitFetch ==
    /\ pc = "fetch"
    /\ entries \in EntryLists
    /\ kv \in Caches
    /\ task = [i \in 1..Len(entries) |-> IdleTask]
    /\ results = <<>>
    /\ ratings = [i \in 1..Len(entries) |-> <<>>]
    /\ chunks = <<>>
    /\ html = <<>>
    /\ class_name = <<>>
    /\ search_pos = 0
    /\ elements = <<>>
    /\ spans = <<>>
    /\ cand = NoMatch
    /\ depth = 0
    /\ pos = 0
    /\ tag_end = 0
    /\ content_end = 0
    /\ anchor = <<>>
    /\ got = NoCall
    /\ NoCaller

\* the cache key of entry i (idx = i - 1 in the code)
KeyOf(i) == generate_cache_key(entries[i].brewery, entries[i].name)

InFlight == {i \in 1..Len(entries) : task[i].pc \in {"get", "lookup", "put"}}

\* the state of the extractor, which fetch_untappd_ratings leaves alone
extractor_vars == <<chunks, html, class_name, search_pos, elements, spans,
                    cand, depth, pos, tag_end, content_end, anchor, got>>

\* buffer_unordered takes the next future off the stream while fewer than
\* CONCURRENT_REQUESTS are in flight; polled, it runs up to
\* kv.get(&cache_key).text().await
StartTask(i) ==
    /\ pc = "fetch"
    /\ task[i].pc = "idle"
    /\ \A j \in 1..(i - 1) : task[j].pc # "idle"
    /\ Cardinality(InFlight) < CONCURRENT_REQUESTS
    /\ task' = [task EXCEPT ![i].pc = "get"]
    /\ UNCHANGED <<extractor_vars, caller_vars, pc, entries, kv, results,
                   ratings>>

\* the cache read resolves: Ok(Some(cached_rating)) returns (idx,
\* cached_rating); Ok(None) and Err(_) go on to the remote lookup
CacheRead(i) ==
    /\ pc = "fetch"
    /\ task[i].pc = "get"
    /\ \E outcome \in (IF kv[KeyOf(i)] = <<>> THEN {"miss", "fail"}
                                              ELSE {"hit", "fail"}) :
          IF outcome = "hit"
          THEN LET cached_rating == kv[KeyOf(i)][1].value
               IN  /\ task' = [task EXCEPT ![i].pc = "done",
                                           ![i].read = "hit",
                                           ![i].rating = <<cached_rating>>]
                   /\ results' = Append(results, <<i - 1, cached_rating>>)
          ELSE /\ task' = [task EXCEPT ![i].pc = "lookup",
                                       ![i].read = outcome]
               /\ UNCHANGED results
    /\ UNCHANGED <<extractor_vars, caller_vars, pc, entries, kv, ratings>>

\* Lookup with a failed lookup not cached: "N/A" is returned without the
\* kv.put
Lookup_ErrorNotCached(i) ==
    /\ pc = "fetch"
    /\ task[i].pc = "lookup"
    /\ \E ok \in BOOLEAN :
          IF ok
          THEN /\ task' = [task EXCEPT
                            ![i].pc = "put",
                            ![i].rating = <<SearchResult(SearchString(entries[i]))>>]
               /\ UNCHANGED results
          ELSE /\ task' = [task EXCEPT ![i].pc = "done", ![i].rating = <<NA>>]
               /\ results' = Append(results, <<i - 1, NA>>)
    /\ UNCHANGED <<extractor_vars, caller_vars, pc, entries, kv, ratings>>

\* get_beer_rating_internal(&search_string).await resolves: Ok(rating) or
\* Err(e) => "N/A"; then kv.put(..).expiration_ttl(..).execute() is awaited
Lookup(i) ==
    /\ pc = "fetch"
    /\ task[i].pc = "lookup"
    /\ \E ok \in BOOLEAN :
          LET rating == IF ok THEN SearchResult(SearchString(entries[i])) ELSE NA
          IN  task' = [task EXCEPT ![i].pc = "put", ![i].rating = <<rating>>]
    /\ UNCHANGED <<extractor_vars, caller_vars, pc, entries, kv, results,
                   ratings>>

\* the cache write resolves, Ok or Err (logged), and (idx, rating) is
\* returned
CachePut(i) ==
    /\ pc = "fetch"
    /\ task[i].pc = "put"
    /\ \E ok \in BOOLEAN :
          /\ kv' = IF ok
                   THEN [kv EXCEPT ![KeyOf(i)] =
                            << Stored(task[i].rating[1], CACHE_TTL_SECONDS) >>]
                   ELSE kv
          /\ task' = [task EXCEPT ![i].pc = "done",
                                  ![i].wrote = IF ok THEN "ok" ELSE "fail"]
    /\ results' = Append(results, <<i - 1, task[i].rating[1]>>)
    /\ UNCHANGED <<extractor_vars, caller_vars, pc, entries, ratings>>

\* for (idx, rating) in results { ratings[idx] = rating; }
RECURSIVE Place(_, _)
Place(into, from) ==
    IF from = <<>> THEN into
    ELSE Place([into EXCEPT ![Head(from)[1] + 1] = Head(from)[2]], Tail(from))

\* PlaceResults with the ratings taken in the order they were collected
PlaceResults_AsCollected ==
    /\ pc = "fetch"
    /\ Len(results) = Len(entries)
    /\ ratings' = [n \in 1..Len(results) |-> results[n][2]]
    /\ pc' = "returned"
    /\ UNCHANGED <<extractor_vars, caller_vars, entries, kv, task, results>>

\* collect() has every result: they are placed by index and Ok(ratings) is
\* returned
PlaceResults ==
    /\ pc = "fetch"
    /\ Len(results) = Len(entries)
    /\ ratings' = Place(ratings, results)
    /\ pc' = "returned"
    /\ UNCHANGED <<extractor_vars, caller_vars, entries, kv, task, results>>

NextFetch ==
    \/ \E i \in 1..Len(entries) : StartTask(i)
    \/ \E i \in 1..Len(entries) : CacheRead(i)
    \/ \E i \in 1..Len(entries) : Lookup(i)
    \/ \E i \in 1..Len(entries) : CachePut(i)
    \/ PlaceResults

SpecFetch == InitFetch /\ [][NextFetch]_vars

-----------------------------------------------------------------------------
\* C16: whatever the order in which the lookups complete, the vector
\* returned has the length of entries and its i-th item is the rating the
\* lookup of entries[i] produced.
C16_OrderPreserved ==
    pc = "returned" =>
        /\ Len(ratings) = Len(entries)
        /\ \A i \in 1..Len(entries) : task[i].rating = <<ratings[i]>>

\* three lookups have been returned that completed last entry first, the
\* first and the last with different ratings
C16_Witness ==
    /\ pc = "returned"
    /\ Len(entries) = 3
    /\ results[1][1] = 2
    /\ results[3][1] = 0
    /\ ratings[1] # ratings[3]

SecondsInAWeek == 7 * 86400

\* C17: for every entry, the remote lookup starts only from a cache read of
\* the entry's key that missed or failed; a cache hit reports the cached
\* value and the future ends there, with no lookup and no cache write; a
\* result that is not a cache hit is reported only by the step that ends
\* the cache write of that result, "N/A" included, under the entry's key
\* with a TTL of one week, and is reported unchanged when the write fails;
\* nothing else changes the cache.
C17_CacheProtocol ==
    [][ /\ \A i \in 1..Len(entries) :
              /\ (task[i].pc # "lookup" /\ task'[i].pc = "lookup") =>
                    /\ task[i].pc = "get"
                    /\ kv[KeyOf(i)] = <<>> \/ task'[i].read = "fail"
                    /\ task'[i].read # "hit"
              /\ (task[i].read = "none" /\ task'[i].read = "hit") =>
                    /\ kv[KeyOf(i)] # <<>>
                    /\ task'[i].pc = "done"
                    /\ results' = Append(results, <<i - 1, kv[KeyOf(i)][1].value>>)
                    /\ kv' = kv
              /\ task[i].read = "hit" => task'[i] = task[i]
              /\ (task[i].pc # "done" /\ task'[i].pc = "done"
                                      /\ task'[i].read # "hit") =>
                    /\ task[i].pc = "put"
                    /\ task[i].rating \in
                          {<<NA>>, <<SearchResult(SearchString(entries[i]))>>}
                    /\ results' = Append(results, <<i - 1, task[i].rating[1]>>)
                    /\ \/ kv' = kv
                       \/ kv' = [kv EXCEPT ![KeyOf(i)] =
                                    << Stored(task[i].rating[1], SecondsInAWeek) >>]
                    /\ task'[i].wrote = "fail" => kv' = kv
                    /\ task'[i].wrote = "ok" =>
                          kv'[KeyOf(i)] =
                              << Stored(task[i].rating[1], SecondsInAWeek) >>
        /\ kv' # kv => \E i \in 1..Len(entries) : task[i].pc = "put"
      ]_vars

\* a run has returned in which one entry was a cache hit, one had its "N/A"
\* written to the cache, and one had the write of its rating fail
C17_Witness ==
    /\ pc = "returned"
    /\ \E i, j, k \in 1..Len(entries) :
          /\ task[i].read = "hit"
          /\ task[j].wrote = "ok" /\ task[j].rating = <<NA>>
          /\ kv[KeyOf(j)] = << Stored(NA, SecondsInAWeek) >>
          /\ task[k].wrote = "fail" /\ task[k].rating # <<NA>>

=============================================================================
